---- MODULE Spec2Model ----
(***************************************************************************)
(* A model of plaso's KML output module (plaso/output/kml.py).            *)
(*                                                                         *)
(* Text is a sequence of characters; a character is a one-character        *)
(* string, except a non-ASCII character, which is written "U+XXXX".        *)
(* The bytes ElementTree.tostring() returns are a sequence of ASCII        *)
(* characters.                                                             *)
(*                                                                         *)
(* The configured encodings of the model are ASCII-compatible codecs and   *)
(* one name no codec is registered under; a codec such as utf-16, under    *)
(* which ASCII bytes decode to other characters, is outside the model.     *)
(***************************************************************************)
EXTENDS Integers, Sequences, FiniteSets, TLC

VARIABLES
  encoding,    \* the output mediator's encoding
  sink,        \* the text the sink holds
  pc,          \* where the caller is
  calls,       \* the calls made so far, each with its record
  raised,      \* the exception the last call let through, or "none"
  attempts,    \* the WriteText calls the last call made
  sinkRaised,  \* the exception WriteText raised in the last call, or "none"
  written,     \* the text the last call handed to WriteText
  prevSink     \* the sink before the last call

vars ==
  <<encoding, sink, pc, calls, raised, attempts, sinkRaised, written,
    prevSink>>

(***************************************************************************)
(* Bounds of the model.                                                    *)
(***************************************************************************)
\* Records the pipeline hands to the module between header and footer.
MaxRecords == 3
\* Calls an arbitrary caller makes, in any order.
MaxCalls == 4
\* Length of the identifier and description strings that are enumerated.
MaxTextLen == 2
\* Characters of a text a failing sink write may still have written.
MaxPartial == 1

(***************************************************************************)
(* Text helpers.                                                           *)
(***************************************************************************)
RECURSIVE Flatten(_)
Flatten(texts) ==
  IF texts = <<>> THEN <<>> ELSE Head(texts) \o Flatten(Tail(texts))

Min(a, b) == IF a < b THEN a ELSE b

DigitChar(d) == <<"0", "1", "2", "3", "4", "5", "6", "7", "8", "9">>[d + 1]

\* str() of a non-negative int.
RECURSIVE NatToStr(_)
NatToStr(n) ==
  IF n < 10 THEN <<DigitChar(n)>>
  ELSE NatToStr(n \div 10) \o <<DigitChar(n % 10)>>

\* str() of an int.
IntToStr(n) == IF n < 0 THEN <<"-">> \o NatToStr(0 - n) ELSE NatToStr(n)

\* str() of a float that is h hundredths: the shortest decimal that reads
\* back as the float, with at least one digit after the point.
FloatToStr(h) ==
  LET a == IF h < 0 THEN 0 - h ELSE h
      f == a % 100
      frac == IF f % 10 = 0 THEN <<DigitChar(f \div 10)>>
              ELSE <<DigitChar(f \div 10), DigitChar(f % 10)>>
  IN (IF h < 0 THEN <<"-">> ELSE <<>>) \o NatToStr(a \div 100) \o <<".">> \o frac

(***************************************************************************)
(* Values of event_data.latitude and event_data.longitude.                 *)
(***************************************************************************)
None == [kind |-> "None", val |-> 0]
PyInt(n) == [kind |-> "int", val |-> n]
\* A float, in hundredths.
PyFloat(h) == [kind |-> "float", val |-> h]

\* '{0!s}'.format(value)
Str(value) ==
  CASE value.kind = "None" -> <<"N", "o", "n", "e">>
    [] value.kind = "int" -> IntToStr(value.val)
    [] value.kind = "float" -> FloatToStr(value.val)

(***************************************************************************)
(* xml.etree.ElementTree.tostring(), as WriteEventBody calls it.           *)
(***************************************************************************)
NonAscii == {"U+00E9"}

\* ord() of the non-ASCII characters.
Ord(c) == CASE c = "U+00E9" -> 233

EscapeChar(c) ==
  CASE c = "&" -> <<"&", "a", "m", "p", ";">>
    [] c = "<" -> <<"&", "l", "t", ";">>
    [] c = ">" -> <<"&", "g", "t", ";">>
    [] c \in NonAscii -> <<"&", "#">> \o NatToStr(Ord(c)) \o <<";">>
    [] OTHER -> <<c>>

\* A mutant: the text as it is.
EscapeCdataRaw(text) == text

\* The text of an element as tostring() writes it: &, < and > escaped, and a
\* character us-ascii cannot encode written as a character reference.
EscapeCdata(text) == Flatten([i \in 1..Len(text) |-> EscapeChar(text[i])])

\* An element with a text and no children: short when the text is empty.
SerializeLeaf(tag, text) ==
  IF text = <<>> THEN <<"<">> \o tag \o <<" ", "/", ">">>
  ELSE <<"<">> \o tag \o <<">">> \o EscapeCdata(text)
       \o <<"<", "/">> \o tag \o <<">">>

\* An element with children and no text.
SerializeParent(tag, children) ==
  <<"<">> \o tag \o <<">">> \o children \o <<"<", "/">> \o tag \o <<">">>

TagPlacemark == <<"P", "l", "a", "c", "e", "m", "a", "r", "k">>
TagName == <<"n", "a", "m", "e">>
TagDescription == <<"d", "e", "s", "c", "r", "i", "p", "t", "i", "o", "n">>
TagPoint == <<"P", "o", "i", "n", "t">>
TagCoordinates == <<"c", "o", "o", "r", "d", "i", "n", "a", "t", "e", "s">>

\* A mutant: the latitude first.
CoordinatesTextSwapped(longitude, latitude) ==
  Str(latitude) \o <<",">> \o Str(longitude)

\* '{0!s},{1!s}'.format(longitude, latitude)
CoordinatesText(longitude, latitude) ==
  Str(longitude) \o <<",">> \o Str(latitude)

\* '{0:s}\n'.format(description_text)
DescriptionText(description_text) == description_text \o <<"\n">>

\* ElementTree.tostring(placemark_xml_element)
PlacemarkXml(name, description, coordinates) ==
  SerializeParent(TagPlacemark,
    SerializeLeaf(TagName, name)
    \o SerializeLeaf(TagDescription, description)
    \o SerializeParent(TagPoint, SerializeLeaf(TagCoordinates, coordinates)))

(***************************************************************************)
(* The output mediator's encoding and codecs.decode().                     *)
(***************************************************************************)
Utf8 == <<"u", "t", "f", "-", "8">>
Latin1 == <<"i", "s", "o", "-", "8", "8", "5", "9", "-", "1">>
\* A name no codec is registered under.
Utf9 == <<"u", "t", "f", "-", "9">>

AsciiCompatible == {Utf8, Latin1}
Encodings == AsciiCompatible \cup {Utf9}

\* codecs.decode(xml_string, encoding) of ASCII bytes: the same characters
\* under an ASCII-compatible codec, LookupError under an unknown name.
Decode(xml_string, enc) ==
  IF enc \in AsciiCompatible
  THEN [raised |-> "none", text |-> xml_string]
  ELSE [raised |-> "LookupError", text |-> <<>>]

(***************************************************************************)
(* The sink: TextFileOutputModule.WriteText().                             *)
(***************************************************************************)
\* How one write to the sink ends: it succeeds, or it fails having written
\* the first `partial` characters.
SinkOk == [ok |-> TRUE, partial |-> 0]
SinkOutcomes == {SinkOk} \cup {[ok |-> FALSE, partial |-> k] : k \in 0..MaxPartial}

WriteText(snk, text, out) ==
  IF out.ok
  THEN [sink |-> snk \o text, raised |-> "none"]
  ELSE [sink |-> snk \o SubSeq(text, 1, Min(out.partial, Len(text))),
        raised |-> "SinkWriteError"]

(***************************************************************************)
(* Event records: what event.GetIdentifier().CopyToString() and            *)
(* GetFormattedEvent() give (a text, or an exception), and the two         *)
(* coordinates of the event data.                                          *)
(***************************************************************************)
Returns(text) == [ok |-> TRUE, text |-> text]
Raises == [ok |-> FALSE, text |-> <<>>]

Record(identifier, description, latitude, longitude) ==
  [identifier |-> identifier, description |-> description,
   latitude |-> latitude, longitude |-> longitude]

NoRecord == Record(Raises, Raises, None, None)

(***************************************************************************)
(* KMLOutputModule.                                                        *)
(***************************************************************************)
\* A mutant: a test of the values' truth, which 0 and 0.0 fail.
EligibleTruthy(rec) ==
  /\ rec.latitude # None /\ rec.latitude.val # 0
  /\ rec.longitude # None /\ rec.longitude.val # 0

\* A mutant: one coordinate is enough.
EligibleEither(rec) == rec.latitude # None \/ rec.longitude # None

\* A mutant: the longitude is not looked at.
EligibleLatitudeOnly(rec) == rec.latitude # None

\* latitude is not None and longitude is not None
Eligible(rec) == rec.latitude # None /\ rec.longitude # None

\* A mutant: the declaration and the root element, without the Document.
HeaderTextNoDocument(enc) ==
  <<"<", "?", "x", "m", "l", " ", "v", "e", "r", "s", "i", "o", "n", "=",
    "\"", "1", ".", "0", "\"", " ", "e", "n", "c", "o", "d", "i", "n", "g",
    "=", "\"">>
  \o enc \o <<"\"", "?", ">">>
  \o <<"<", "k", "m", "l", " ", "x", "m", "l", "n", "s", "=", "\"", "h", "t",
       "t", "p", ":", "/", "/", "w", "w", "w", ".", "o", "p", "e", "n", "g",
       "i", "s", ".", "n", "e", "t", "/", "k", "m", "l", "/", "2", ".", "2",
       "\"", ">">>

\* The xml_string of WriteHeader.
HeaderText(enc) ==
  <<"<", "?", "x", "m", "l", " ", "v", "e", "r", "s", "i", "o", "n", "=",
    "\"", "1", ".", "0", "\"", " ", "e", "n", "c", "o", "d", "i", "n", "g",
    "=", "\"">>
  \o enc \o <<"\"", "?", ">">>
  \o <<"<", "k", "m", "l", " ", "x", "m", "l", "n", "s", "=", "\"", "h", "t",
       "t", "p", ":", "/", "/", "w", "w", "w", ".", "o", "p", "e", "n", "g",
       "i", "s", ".", "n", "e", "t", "/", "k", "m", "l", "/", "2", ".", "2",
       "\"", ">">>
  \o <<"<", "D", "o", "c", "u", "m", "e", "n", "t", ">">>

\* The text WriteFooter writes.
FooterText ==
  <<"<", "/", "D", "o", "c", "u", "m", "e", "n", "t", ">",
    "<", "/", "k", "m", "l", ">">>

\* What a handler did: the sink after it, the exception it let through
\* ("none": it returned), the WriteText calls it made, what the last of them
\* raised and the text it was given.
Result(snk, exc, n, sinkExc, text) ==
  [sink |-> snk, raised |-> exc, attempts |-> n, sinkRaised |-> sinkExc,
   written |-> text]

\* A handler that returns, or raises, before any call of WriteText.
NoWrite(snk, exc) == Result(snk, exc, 0, "none", <<>>)

\* A mutant: a failed write is tried once more, and its failure is dropped.
WriteOnceRetry(snk, text, out) ==
  LET w == WriteText(snk, text, out)
  IN IF w.raised = "none" THEN Result(w.sink, "none", 1, "none", text)
     ELSE Result(w.sink \o text, "none", 2, w.raised, text)

\* A handler's call of WriteText, its last statement: what WriteText raises
\* the handler lets through.
WriteOnce(snk, text, out) ==
  LET w == WriteText(snk, text, out)
  IN Result(w.sink, w.raised, 1, w.raised, text)

\* A mutant: the name element goes to the sink before the description is
\* formatted.
RenderEventBodyEarly(rec, enc) ==
  IF ~rec.identifier.ok
  THEN [raised |-> "IdentifierError", text |-> <<>>]
  ELSE IF ~rec.description.ok
  THEN [raised |-> "none",
        text |-> SerializeLeaf(TagName, rec.identifier.text)]
  ELSE Decode(PlacemarkXml(rec.identifier.text,
                           DescriptionText(rec.description.text),
                           CoordinatesText(rec.longitude, rec.latitude)),
              enc)

\* WriteEventBody for an eligible record, up to its call of WriteText: the
\* output_text, or the exception of the first step that fails.
RenderEventBody(rec, enc) ==
  IF ~rec.identifier.ok
  THEN [raised |-> "IdentifierError", text |-> <<>>]
  ELSE IF ~rec.description.ok
  THEN [raised |-> "FormatError", text |-> <<>>]
  ELSE Decode(PlacemarkXml(rec.identifier.text,
                           DescriptionText(rec.description.text),
                           CoordinatesText(rec.longitude, rec.latitude)),
              enc)

\* WriteEventBody: nothing for a record that is not eligible; for one that
\* is, the output_text handed to WriteText, or the exception of the step
\* that failed before.
WriteEventBody(snk, enc, rec, out) ==
  IF ~Eligible(rec) THEN NoWrite(snk, "none")
  ELSE LET r == RenderEventBody(rec, enc)
       IN IF r.raised # "none" THEN NoWrite(snk, r.raised)
          ELSE WriteOnce(snk, r.text, out)

\* WriteHeader: the xml_string handed to WriteText.
WriteHeader(snk, enc, out) == WriteOnce(snk, HeaderText(enc), out)

\* WriteFooter: the closing elements handed to WriteText.
WriteFooter(snk, out) == WriteOnce(snk, FooterText, out)

(***************************************************************************)
(* The calls made so far, and a call's effect on the state.                *)
(***************************************************************************)
Call(op, rec) == [op |-> op, rec |-> rec]

Apply(op, rec, res) ==
  /\ sink' = res.sink
  /\ raised' = res.raised
  /\ attempts' = res.attempts
  /\ sinkRaised' = res.sinkRaised
  /\ written' = res.written
  /\ prevSink' = sink
  /\ calls' = Append(calls, Call(op, rec))
  /\ UNCHANGED encoding

InitWriter ==
  /\ encoding \in Encodings
  /\ sink = <<>>
  /\ calls = <<>>
  /\ raised = "none"
  /\ attempts = 0
  /\ sinkRaised = "none"
  /\ written = <<>>
  /\ prevSink = <<>>

(***************************************************************************)
(* The pipeline: the header, the records of the stream, the footer. An     *)
(* exception a handler lets through ends the run.                          *)
(***************************************************************************)
StreamRecords ==
  LET id1 == Returns(<<"E", "1">>)
      desc == Returns(<<"a", "&", "b">>)
      lat == PyFloat(1250)
      lon == PyFloat(-7025)
  IN {Record(id1, desc, lat, lon),
      Record(Returns(<<>>), Returns(<<"<", "b", ">">>), PyFloat(3742),
             PyFloat(-12208)),
      Record(Raises, desc, lat, lon),
      Record(id1, Raises, lat, lon),
      Record(Raises, desc, None, lon),
      Record(id1, Raises, lat, None),
      Record(id1, desc, lat, None),
      Record(id1, desc, None, None)}

After(res, next) == IF res.raised = "none" THEN next ELSE "aborted"

Init == InitWriter /\ pc = "header"

Header ==
  /\ pc = "header"
  /\ \E out \in SinkOutcomes :
       LET res == WriteHeader(sink, encoding, out)
       IN Apply("WriteHeader", NoRecord, res) /\ pc' = After(res, "records")

Body ==
  /\ pc = "records"
  /\ Len(calls) < 1 + MaxRecords
  /\ \E rec \in StreamRecords, out \in SinkOutcomes :
       LET res == WriteEventBody(sink, encoding, rec, out)
       IN Apply("WriteEventBody", rec, res) /\ pc' = After(res, "records")

Footer ==
  /\ pc = "records"
  /\ \E out \in SinkOutcomes :
       LET res == WriteFooter(sink, out)
       IN Apply("WriteFooter", NoRecord, res) /\ pc' = After(res, "done")

Next == Header \/ Body \/ Footer

Spec == Init /\ [][Next]_vars

(***************************************************************************)
(* A caller that keeps to no order: any handler, any number of times.      *)
(***************************************************************************)
AnyRecords ==
  {Record(Returns(<<"E", "1">>), Returns(<<"a", "&", "b">>),
          PyFloat(1250), PyFloat(-7025)),
   Record(Raises, Returns(<<"a", "&", "b">>), PyFloat(1250), PyFloat(-7025)),
   Record(Returns(<<"E", "2">>), Returns(<<>>), None, PyFloat(-7025))}

InitAnyOrder == InitWriter /\ pc = "any"

AnyHeader ==
  /\ pc = "any"
  /\ Len(calls) < MaxCalls
  /\ \E out \in SinkOutcomes :
       Apply("WriteHeader", NoRecord, WriteHeader(sink, encoding, out))
  /\ UNCHANGED pc

AnyBody ==
  /\ pc = "any"
  /\ Len(calls) < MaxCalls
  /\ \E rec \in AnyRecords, out \in SinkOutcomes :
       Apply("WriteEventBody", rec, WriteEventBody(sink, encoding, rec, out))
  /\ UNCHANGED pc

AnyFooter ==
  /\ pc = "any"
  /\ Len(calls) < MaxCalls
  /\ \E out \in SinkOutcomes :
       Apply("WriteFooter", NoRecord, WriteFooter(sink, out))
  /\ UNCHANGED pc

NextAnyOrder == AnyHeader \/ AnyBody \/ AnyFooter

SpecAnyOrder == InitAnyOrder /\ [][NextAnyOrder]_vars

(***************************************************************************)
(* One call of WriteEventBody on an empty sink, for every record whose     *)
(* identifier and description are short strings over Alphabet.             *)
(***************************************************************************)
Alphabet == {"a", "&", "<", ">", "\"", "U+00E9"}

Texts(n) == UNION {[1..k -> Alphabet] : k \in 0..n}

RenderIdentifiers == {Raises} \cup {Returns(t) : t \in Texts(MaxTextLen)}
RenderDescriptions ==
  {Raises} \cup {Returns(t) : t \in Texts(1)}
  \cup {Returns(<<"&", "l", "t", ";">>), Returns(<<"a", "<", "&", ">">>)}
RenderLatitudes == {None, PyInt(0), PyFloat(0), PyFloat(1250)}
RenderLongitudes == {None, PyInt(0), PyFloat(0), PyFloat(-7025)}

RenderRecords ==
  {Record(i, d, la, lo) :
     i \in RenderIdentifiers, d \in RenderDescriptions,
     la \in RenderLatitudes, lo \in RenderLongitudes}

InitRender == InitWriter /\ pc = "render"

Render ==
  /\ pc = "render"
  /\ \E rec \in RenderRecords :
       Apply("WriteEventBody", rec,
             WriteEventBody(sink, encoding, rec, SinkOk))
  /\ pc' = "rendered"

NextRender == Render

SpecRender == InitRender /\ [][NextRender]_vars

(***************************************************************************)
(* Reading a text back: what the properties below say of the sink.         *)
(***************************************************************************)
Called == calls # <<>>
LastCall == calls[Len(calls)]
LastIs(op) == Called /\ LastCall.op = op

StartsWith(text, prefix) ==
  Len(text) >= Len(prefix) /\ SubSeq(text, 1, Len(prefix)) = prefix

Drop(text, n) == SubSeq(text, n + 1, Len(text))

\* The places of `text` where `part` starts.
Occurrences(text, part) ==
  {i \in 1..(Len(text) - Len(part) + 1) :
     SubSeq(text, i, i + Len(part) - 1) = part}

OpenTag(tag) == <<"<">> \o tag \o <<">">>
CloseTag(tag) == <<"<", "/">> \o tag \o <<">">>
EmptyTag(tag) == <<"<">> \o tag \o <<" ", "/", ">">>

\* The characters of `text` before its first "<".
RECURSIVE UpToMarkup(_)
UpToMarkup(text) ==
  IF text = <<>> \/ Head(text) = "<" THEN <<>>
  ELSE <<Head(text)>> \o UpToMarkup(Tail(text))

Failed == [ok |-> FALSE, text |-> <<>>, rest |-> <<>>]

\* An XML reader's view of `text` when it starts with an element `tag` that
\* holds character data only: the data as written, and the text after the
\* element.
ReadLeaf(text, tag) ==
  IF StartsWith(text, EmptyTag(tag))
  THEN [ok |-> TRUE, text |-> <<>>, rest |-> Drop(text, Len(EmptyTag(tag)))]
  ELSE IF StartsWith(text, OpenTag(tag))
  THEN LET body == Drop(text, Len(OpenTag(tag)))
           data == UpToMarkup(body)
           after == Drop(body, Len(data))
       IN IF StartsWith(after, CloseTag(tag))
          THEN [ok |-> TRUE, text |-> data,
                rest |-> Drop(after, Len(CloseTag(tag)))]
          ELSE Failed
  ELSE Failed

\* The character an entity or character reference stands for.
Reference(name) ==
  CASE name = <<"a", "m", "p">> -> <<"&">>
    [] name = <<"l", "t">> -> <<"<">>
    [] name = <<"g", "t">> -> <<">">>
    [] name = <<"#", "2", "3", "3">> -> <<"U+00E9">>
    [] OTHER -> <<>>

\* The characters of `text` before its first ";".
RECURSIVE UpToSemicolon(_)
UpToSemicolon(text) ==
  IF text = <<>> \/ Head(text) = ";" THEN <<>>
  ELSE <<Head(text)>> \o UpToSemicolon(Tail(text))

\* Character data unescaped; not ok when it holds a raw "<" or ">", or an
\* "&" that starts no reference.
RECURSIVE Unescape(_)
Unescape(data) ==
  IF data = <<>> THEN [ok |-> TRUE, text |-> <<>>]
  ELSE IF Head(data) \in {"<", ">"} THEN [ok |-> FALSE, text |-> <<>>]
  ELSE IF Head(data) = "&"
  THEN LET name == UpToSemicolon(Tail(data))
           char == Reference(name)
           more == Drop(data, Len(name) + 2)
       IN IF Len(name) + 2 > Len(data) \/ char = <<>>
          THEN [ok |-> FALSE, text |-> <<>>]
          ELSE LET u == Unescape(more)
               IN [ok |-> u.ok, text |-> char \o u.text]
  ELSE LET u == Unescape(Tail(data))
       IN [ok |-> u.ok, text |-> <<Head(data)>> \o u.text]

\* A Placemark fragment read back: its three texts, unescaped.
ReadPlacemark(text) ==
  LET bad == [ok |-> FALSE, name |-> <<>>, description |-> <<>>,
              coordinates |-> <<>>]
  IN IF ~StartsWith(text, OpenTag(TagPlacemark)) THEN bad
     ELSE LET n == ReadLeaf(Drop(text, Len(OpenTag(TagPlacemark))), TagName)
              d == ReadLeaf(n.rest, TagDescription)
              c == IF StartsWith(d.rest, OpenTag(TagPoint))
                   THEN ReadLeaf(Drop(d.rest, Len(OpenTag(TagPoint))),
                                 TagCoordinates)
                   ELSE Failed
              un == Unescape(n.text)
              ud == Unescape(d.text)
              uc == Unescape(c.text)
          IN IF /\ n.ok /\ d.ok /\ c.ok /\ un.ok /\ ud.ok /\ uc.ok
                /\ c.rest = CloseTag(TagPoint) \o CloseTag(TagPlacemark)
             THEN [ok |-> TRUE, name |-> un.text, description |-> ud.text,
                   coordinates |-> uc.text]
             ELSE bad

\* The records handed to WriteEventBody so far, in order.
RECURSIVE BodyRecords(_)
BodyRecords(cs) ==
  IF cs = <<>> THEN <<>>
  ELSE (IF Head(cs).op = "WriteEventBody" THEN <<Head(cs).rec>> ELSE <<>>)
       \o BodyRecords(Tail(cs))

BothPresent(rec) == rec.latitude.kind # "None" /\ rec.longitude.kind # "None"

\* The Placemark fragment of a record.
Fragment(rec) ==
  PlacemarkXml(rec.identifier.text, DescriptionText(rec.description.text),
               CoordinatesText(rec.longitude, rec.latitude))

\* The fragments of the records of `recs` that have both coordinates, in
\* the order of `recs`.
RECURSIVE Fragments(_)
Fragments(recs) ==
  IF recs = <<>> THEN <<>>
  ELSE (IF BothPresent(Head(recs)) THEN Fragment(Head(recs)) ELSE <<>>)
       \o Fragments(Tail(recs))

\* The calls so far are WriteHeader, then WriteEventBody only, then
\* WriteFooter, and each returned.
WholeDocument ==
  /\ pc = "done"
  /\ Len(calls) >= 2
  /\ calls[1].op = "WriteHeader"
  /\ LastIs("WriteFooter")
  /\ \A i \in 2..(Len(calls) - 1) : calls[i].op = "WriteEventBody"

(***************************************************************************)
(* C1: after WriteHeader, one WriteEventBody per record and WriteFooter,   *)
(* the sink holds the header text, then one Placemark fragment per record  *)
(* that has both coordinates, in the order of the records, then the footer *)
(* text, and nothing else: as many fragments as there are such records.    *)
(***************************************************************************)
C1_WholeDocument ==
  WholeDocument =>
    LET recs == BodyRecords(calls)
    IN /\ sink = HeaderText(encoding) \o Fragments(recs) \o FooterText
       /\ Cardinality(Occurrences(sink, OpenTag(TagPlacemark)))
            = Cardinality({i \in 1..Len(recs) : BothPresent(recs[i])})

C1_Witness ==
  /\ WholeDocument
  /\ LET recs == BodyRecords(calls)
     IN /\ Len(recs) = 3
        /\ BothPresent(recs[1]) /\ ~BothPresent(recs[2]) /\ BothPresent(recs[3])
        /\ recs[1].identifier # recs[3].identifier

(***************************************************************************)
(* C2: WriteEventBody on a record without a latitude or without a          *)
(* longitude makes no write, leaves the sink as it was and returns.        *)
(***************************************************************************)
C2_MissingCoordinateSkipped ==
  (LastIs("WriteEventBody") /\ ~BothPresent(LastCall.rec)) =>
    /\ attempts = 0
    /\ sink = prevSink
    /\ raised = "none"

C2_Witness ==
  /\ LastIs("WriteEventBody")
  /\ LastCall.rec.latitude.kind = "None"
  /\ LastCall.rec.longitude.kind # "None"
  /\ ~LastCall.rec.identifier.ok
  /\ Len(calls) = 3
  /\ prevSink # HeaderText(encoding)
  /\ sink = prevSink

\* The WriteHeader calls made before the last call.
HeadersBefore ==
  Cardinality({i \in 1..(Len(calls) - 1) : calls[i].op = "WriteHeader"})

(***************************************************************************)
(* C3: a second WriteHeader, and a WriteFooter before any WriteHeader,     *)
(* raises FramingViolation and leaves the sink as it was.                  *)
(***************************************************************************)
C3_FramingViolation ==
  (\/ LastIs("WriteHeader") /\ HeadersBefore >= 1
   \/ LastIs("WriteFooter") /\ HeadersBefore = 0) =>
    /\ raised = "FramingViolation"
    /\ sink = prevSink

\* The text of an eligible record that WriteEventBody handed to the sink in
\* the one call made.
Rendered == pc = "rendered" /\ attempts = 1

(***************************************************************************)
(* C4: the coordinates text of the Placemark of an eligible record is the  *)
(* string form of the longitude, a comma, the string form of the latitude; *)
(* latitude 12.5 and longitude -70.25 give "-70.25,12.5".                  *)
(***************************************************************************)
C4_LongitudeFirst ==
  Rendered =>
    LET rec == LastCall.rec
        p == ReadPlacemark(written)
    IN /\ p.ok
       /\ p.coordinates = Str(rec.longitude) \o <<",">> \o Str(rec.latitude)
       /\ (rec.latitude = PyFloat(1250) /\ rec.longitude = PyFloat(-7025)) =>
            p.coordinates
              = <<"-", "7", "0", ".", "2", "5", ",", "1", "2", ".", "5">>

C4_Witness ==
  /\ Rendered
  /\ LastCall.rec.latitude = PyFloat(1250)
  /\ LastCall.rec.longitude = PyFloat(-7025)
  /\ ReadPlacemark(sink).coordinates
       = <<"-", "7", "0", ".", "2", "5", ",", "1", "2", ".", "5">>

\* The XML declaration that names encoding `enc`, then the opening kml and
\* Document elements.
DocumentOpening(enc) ==
  Flatten(<<
    <<"<", "?", "x", "m", "l", " ">>,
    <<"v", "e", "r", "s", "i", "o", "n", "=", "\"", "1", ".", "0", "\"", " ">>,
    <<"e", "n", "c", "o", "d", "i", "n", "g", "=", "\"">>, enc, <<"\"">>,
    <<"?", ">">>,
    <<"<", "k", "m", "l", " ", "x", "m", "l", "n", "s", "=", "\"">>,
    <<"h", "t", "t", "p", ":", "/", "/", "w", "w", "w", ".", "o", "p", "e",
      "n", "g", "i", "s", ".", "n", "e", "t", "/", "k", "m", "l", "/", "2",
      ".", "2">>,
    <<"\"", ">">>,
    <<"<", "D", "o", "c", "u", "m", "e", "n", "t", ">">> >>)

(***************************************************************************)
(* C5: every WriteHeader call makes exactly one write to the sink, of the  *)
(* XML declaration with the configured encoding followed at once by the    *)
(* opening kml element and one opening Document element, and nothing else. *)
(***************************************************************************)
C5_HeaderOneWrite ==
  LastIs("WriteHeader") =>
    /\ attempts = 1
    /\ written = DocumentOpening(encoding)
    /\ raised = "none" => sink = prevSink \o DocumentOpening(encoding)

C5_Witness ==
  /\ LastIs("WriteHeader")
  /\ Len(calls) = 3
  /\ calls[2].op = "WriteEventBody"
  /\ raised = "none"
  /\ prevSink # <<>>
  /\ sink = prevSink \o DocumentOpening(encoding)

(***************************************************************************)
(* C6: when the identifier of an eligible record cannot be converted to a  *)
(* string, WriteEventBody writes nothing for the record and does not let   *)
(* the failure through to its caller (no strict mode is configured).       *)
(***************************************************************************)
C6_SkipAndContinue ==
  (/\ LastIs("WriteEventBody")
   /\ BothPresent(LastCall.rec)
   /\ ~LastCall.rec.identifier.ok) =>
    /\ raised = "none"
    /\ sink = prevSink

(***************************************************************************)
(* C7: a handler calls WriteText at most once, and when that call fails    *)
(* the handler lets the failure through to its caller and does not write   *)
(* again.                                                                  *)
(***************************************************************************)
C7_SinkFailureSurfaced ==
  Called =>
    /\ attempts <= 1
    /\ sinkRaised # "none" =>
         /\ raised = "SinkWriteError"
         /\ attempts = 1
         /\ Len(sink) - Len(prevSink) <= MaxPartial

C7_Witness ==
  /\ LastIs("WriteEventBody")
  /\ sinkRaised = "SinkWriteError"
  /\ raised = "SinkWriteError"
  /\ Len(calls) = 2
  /\ calls[1].op = "WriteHeader"

(***************************************************************************)
(* C8: the identifier and the description of an eligible record are        *)
(* written with every "&", "<" and ">" escaped: the name and description   *)
(* texts of the fragment hold none of them raw, and unescaped they are the *)
(* identifier and the description followed by a newline.                   *)
(***************************************************************************)
C8_EscapingRoundTrip ==
  Rendered =>
    LET rec == LastCall.rec
        p == ReadPlacemark(sink)
    IN /\ p.ok
       /\ p.name = rec.identifier.text
       /\ p.description = rec.description.text \o <<"\n">>

C8_Witness ==
  /\ Rendered
  /\ LastCall.rec.identifier.text = <<"<", "&">>
  /\ LastCall.rec.description.text = <<"&", "l", "t", ";">>
  /\ ReadPlacemark(sink).name = <<"<", "&">>
  /\ Occurrences(sink, <<"&", "a", "m", "p", ";", "l", "t", ";">>) # {}

\* A step of WriteEventBody before its write fails for the record.
StepFails(rec) ==
  \/ ~rec.identifier.ok
  \/ ~rec.description.ok
  \/ encoding \notin AsciiCompatible

(***************************************************************************)
(* C9: WriteEventBody makes at most one write, of the whole fragment, and  *)
(* only when the identifier conversion, the description formatting, the    *)
(* rendering and the decoding have succeeded; when one of them fails the   *)
(* sink is as it was before the call.                                      *)
(***************************************************************************)
C9_WriteAfterAllSteps ==
  LastIs("WriteEventBody") =>
    LET rec == LastCall.rec
    IN /\ attempts <= 1
       /\ (BothPresent(rec) /\ StepFails(rec)) =>
            /\ attempts = 0
            /\ sink = prevSink
            /\ raised \in {"IdentifierError", "FormatError", "LookupError"}
       /\ attempts = 1 =>
            /\ ~StepFails(rec)
            /\ ReadPlacemark(written).ok
            /\ raised = "none" => sink = prevSink \o written

C9_Witness ==
  /\ LastIs("WriteEventBody")
  /\ BothPresent(LastCall.rec)
  /\ LastCall.rec.identifier.ok
  /\ ~LastCall.rec.description.ok
  /\ encoding \in AsciiCompatible
  /\ Len(calls) = 3
  /\ Occurrences(prevSink, OpenTag(TagPlacemark)) # {}
  /\ sink = prevSink

\* The value is 0 or 0.0.
IsZero(value) == value.kind \in {"int", "float"} /\ value.val = 0

(***************************************************************************)
(* C10: a record is eligible when both coordinates are present, whatever   *)
(* their values: with a latitude or a longitude of 0 or 0.0 it produces    *)
(* exactly one Placemark fragment, as with any other pair.                 *)
(***************************************************************************)
C10_PresenceNotValue ==
  pc = "rendered" =>
    LET rec == LastCall.rec
    IN /\ attempts = 1 <=> (BothPresent(rec) /\ ~StepFails(rec))
       /\ (/\ BothPresent(rec)
           /\ IsZero(rec.latitude) \/ IsZero(rec.longitude)
           /\ ~StepFails(rec)) =>
            /\ ReadPlacemark(sink).ok
            /\ Cardinality(Occurrences(sink, OpenTag(TagPlacemark))) = 1

C10_Witness ==
  /\ Rendered
  /\ LastCall.rec.latitude = PyInt(0)
  /\ LastCall.rec.longitude = PyFloat(0)
  /\ ReadPlacemark(sink).coordinates = <<"0", ".", "0", ",", "0">>

====
